---- MODULE Spec2Model ----
(***************************************************************************)
(* Model of the curie_ngd build pipeline (db_build/):                      *)
(*   curie_ngd_builder.py        __main__, the orchestrator of one run     *)
(*   curie_pmids_into_memory.py  the loader of CURIE->PMIDs into Redis     *)
(*   check_plover_url_compatibility.py  get_kg2_version_from_plover        *)
(* The Redis store (citation sets and the "version" key) and the remote    *)
(* host outlive a run; everything else is local to one run of the script.  *)
(***************************************************************************)
EXTENDS Integers, Sequences, FiniteSets, TLC

\* ---------------------------------------------------------------- bounds
\* Longest snapshot table of the model, in rows.
MaxRows == 3

\* batch_size = 1000 and pipeline_size = 1000 in the source; the model keeps
\* their equality and scales them so that a snapshot of MaxRows rows spans
\* more than one batch.
batch_size == 2

pipeline_size == batch_size

\* ---------------------------------------------------------------- values
None == "None"

\* A local that has not been assigned yet.
Unset == "unset"

\* --kg-version values (kg_version_validator accepts X.Y.Z).
Versions == {"2.10.1", "2.10.2"}

\* --out-dir values: the default, and another directory.
OutDirs == {".", "out"}

\* A file of the build: its directory, relative to the working directory, and
\* its name, which is made of the kind of database and the version.
File(dir, kind, v) == [dir |-> dir, kind |-> kind, version |-> v]

\* f"curie_to_pmids_v1.0_KG{version}.sqlite": a bare file name, which every
\* open resolves against the working directory.
curie_to_pmids_path(v) == File(".", "curie_to_pmids", v)

\* f"curie_ngd_v1.0_KG{version}.sqlite"
curie_ngd_db_name(v) == File(".", "curie_ngd", v)

\* out_dir / name, for a bare file name (Path(".") / name is name).
Under(dir, file) == [file EXCEPT !.dir = dir]

\* The serialized pmids column of a row: texts handed to ast.literal_eval, one
\* for each way the loader treats a row (a list, an empty list, an iterable
\* that is no list, a scalar, a falsy scalar, text that does not parse).
Payloads == {"[1, 2]", "[]", "'ab'", "7", "0", "[1,"}

\* The CURIE of the row at position i of a table (curie is the primary key).
Curies == 0..MaxRows

Row(i, text) == [curie |-> i, pmids |-> text]

\* Tables of at most MaxRows rows, row i keyed by CURIE i.
Tables ==
    UNION { { [i \in 1..n |-> Row(i, f[i])] : f \in [1..n -> Payloads] } : n \in 0..MaxRows }

\* The curie_to_pmids table of the snapshot of the older version: well formed.
PriorTable == << Row(0, "[3]"), Row(1, "[3, 4]") >>

\* ast.literal_eval on the payload texts: the Python value, or the error raised.
literal_eval(text) ==
    CASE text = "[1, 2]" -> [type |-> "list", items |-> <<"1", "2">>]
      [] text = "[3]"    -> [type |-> "list", items |-> <<"3">>]
      [] text = "[3, 4]" -> [type |-> "list", items |-> <<"3", "4">>]
      [] text = "[]"     -> [type |-> "list", items |-> <<>>]
      [] text = "'ab'"   -> [type |-> "str",  items |-> <<"a", "b">>]
      [] text = "7"      -> [type |-> "int",  items |-> <<"7">>]
      [] text = "0"      -> [type |-> "int",  items |-> <<"0">>]
      [] text = "{1: 2}" -> [type |-> "dict", items |-> <<"1">>]
      [] OTHER           -> [type |-> "SyntaxError", items |-> <<>>]

\* Python truthiness of the evaluated value (`if not pmids: continue`).
Truthy(v) ==
    IF v.type = "int" THEN v.items # <<"0">> ELSE Len(v.items) > 0

\* `*pmids` unpacks lists, strings (characters) and dicts (keys); an int is
\* not iterable and raises TypeError.
Iterable(v) == v.type \in {"list", "str", "dict"}

Range(s) == { s[i] : i \in DOMAIN s }

\* ---------------------------------------------------------------- state
VARIABLES
    marker,          \* Redis key "version": None or a version string
    store,           \* Redis sets: CURIE -> set of members ({} = no such key)
    remote,          \* versions whose curie_ngd artifact exists on the remote host
    snapshot,        \* version -> rows of curie_to_pmids in that version's snapshot
    pc,              \* position of the running script
    version,         \* args.kg_version of the run
    plover_version,  \* value returned by get_kg2_version_from_plover
    redis_version,   \* loader: the marker read by redis_client.get("version")
    offset,          \* loader: offset
    rows,            \* loader: rows of the current batch
    idx,             \* loader: position of the for loop in rows
    pipeline,        \* loader: commands buffered in the Redis pipeline
    raised,          \* loader: the exception propagating out of the try block, or None
    ops,             \* write commands this run has sent to Redis, by command
    calls,           \* collaborators this run has invoked, in order
    status,          \* exit status of the process, None while it runs
    error,           \* the uncaught exception that ended the process, or None
    at_call,         \* history: the marker and the sets when the loader was called
    out_dir,         \* args.out_dir of the run
    local,           \* files of the working directory: verified snapshots, written artifacts
    records,         \* NGD records the compute step of this run has emitted
    home,            \* the remote account's $HOME
    remote_path_expanded,  \* upload_file: the remote path after "~" expansion
    stack,           \* _mkdir_p_sftp: the frames of the recursion, innermost last
    fs,              \* directories that exist on the remote host
    not_found,       \* paths for which sftp.stat raised FileNotFoundError
    mkdirs,          \* the sftp.mkdir calls made, in order
    mk_result        \* "idle", "running", "returned", or "raised"

build_vars == << marker, store, remote, snapshot, pc, version, plover_version,
                redis_version, offset, rows, idx, pipeline, raised, ops, calls, status,
                error, at_call, out_dir, local, records >>

sftp_vars == << home, remote_path_expanded, stack, fs, not_found, mkdirs, mk_result >>

vars == << build_vars, sftp_vars >>

persistent == << marker, store, remote, snapshot >>
loader_locals == << redis_version, offset, rows, idx, pipeline, raised, at_call >>

files == << out_dir, local, records >>

NoOps == [flushall |-> 0, sadd |-> 0, execute |-> 0, set |-> 0]

EmptyStore == [c \in Curies |-> {}]

Init ==
    /\ marker = None
    /\ store = EmptyStore
    /\ remote \in SUBSET Versions
    /\ snapshot \in { [v \in Versions |-> IF v = "2.10.1" THEN PriorTable ELSE t] : t \in Tables }
    /\ pc = "main"
    /\ version \in Versions
    /\ plover_version = Unset
    /\ redis_version = Unset
    /\ offset = 0
    /\ rows = <<>>
    /\ idx = 0
    /\ pipeline = <<>>
    /\ raised = None
    /\ ops = NoOps
    /\ calls = <<>>
    /\ status = None
    /\ error = None
    /\ at_call = Unset
    /\ out_dir \in OutDirs
    /\ local = {}
    /\ records = {}
    /\ home = <<>>
    /\ remote_path_expanded = <<>>
    /\ stack = <<>>
    /\ fs = {}
    /\ not_found = {}
    /\ mkdirs = <<>>
    /\ mk_result = "idle"

\* ---------------------------------------------------------------- process exit
\* exit(code), or falling off the end of the script (status 0).
Exit(code) ==
    /\ pc' = "exited"
    /\ status' = code
    /\ error' = None

\* An exception nobody catches: the interpreter prints it and exits with status 1.
Raise(e) ==
    /\ pc' = "exited"
    /\ status' = 1
    /\ error' = e

Continue(label) ==
    /\ pc' = label
    /\ UNCHANGED << status, error >>

\* ---------------------------------------------------------------- orchestrator
\* remote_file_exist(...) and the test on its result.
RemoteCheck ==
    /\ pc = "main"
    /\ \/ /\ version \notin remote      \* `if not version_already_exist: exit(0)`
          /\ Exit(0)
       \/ /\ version \in remote
          /\ Continue("download")
       \/ Raise("remote_file_exist")
    /\ UNCHANGED << persistent, version, plover_version, loader_locals, ops, calls >>
    /\ UNCHANGED files
    /\ UNCHANGED sftp_vars

\* The working directory once `file` has been written. A file staged under
\* another --out-dir is opened by no later step of the build (the loader and
\* the compute step are given bare names), and is left out of the state.
Staged(dir_files, file) ==
    IF file.dir = "." THEN dir_files \cup {file} ELSE dir_files

\* ensure_downloaded_and_verified(...)
Download ==
    /\ pc = "download"
    /\ \/ /\ Continue("plover")
          /\ local' = Staged(local, Under(out_dir, curie_to_pmids_path(version)))
       \/ /\ Raise("ensure_downloaded_and_verified")
          /\ UNCHANGED local
    /\ UNCHANGED << out_dir, records >>
    /\ UNCHANGED << persistent, version, plover_version, loader_locals, ops, calls >>
    /\ UNCHANGED sftp_vars

\* PloverCheck without the `plover_version != version` test.
PloverCheck_NoMismatchTest ==
    /\ pc = "plover"
    /\ \/ \E pv \in Versions \cup {None} :
            /\ plover_version' = pv
            /\ IF pv = None THEN Exit(0)
               ELSE Continue("get_version")
       \/ /\ Raise("get_kg2_version_from_plover")
          /\ UNCHANGED plover_version
    /\ UNCHANGED << persistent, version, loader_locals, ops, calls >>
    /\ UNCHANGED files
    /\ UNCHANGED sftp_vars

\* get_kg2_version_from_plover and the two tests on its result.
PloverCheck ==
    /\ pc = "plover"
    /\ \/ \E pv \in Versions \cup {None} :
            /\ plover_version' = pv
            /\ IF pv = None THEN Exit(0)
               ELSE IF pv # version THEN Exit(0)
               ELSE Continue("get_version")
       \/ /\ Raise("get_kg2_version_from_plover")    \* raise_for_status, KeyError
          /\ UNCHANGED plover_version
    /\ UNCHANGED << persistent, version, loader_locals, ops, calls >>
    /\ UNCHANGED files
    /\ UNCHANGED sftp_vars

\* ---------------------------------------------------------------- loader
Issue(cmd) == [ops EXCEPT ![cmd] = @ + 1]

\* LoaderGetVersion without the early return: a matching marker is reloaded too.
LoaderGetVersion_NoReturn ==
    /\ pc = "get_version"
    /\ calls' = Append(calls, "loader")
    /\ at_call' = [marker |-> marker, store |-> store]
    /\ \/ /\ redis_version' = marker
          /\ Continue("flushall")
       \/ /\ Raise("redis")
          /\ UNCHANGED redis_version
    /\ UNCHANGED << persistent, version, plover_version, offset, rows, idx, pipeline,
                    raised, ops >>
    /\ UNCHANGED files
    /\ UNCHANGED sftp_vars

\* redis_client.get("version") and the early return.
LoaderGetVersion ==
    /\ pc = "get_version"
    /\ calls' = Append(calls, "loader")
    /\ at_call' = [marker |-> marker, store |-> store]
    /\ \/ /\ redis_version' = marker
          /\ IF marker # None /\ marker = version
             THEN Continue("compute")    \* return
             ELSE Continue("flushall")
       \/ /\ Raise("redis")              \* the store cannot be read
          /\ UNCHANGED redis_version
    /\ UNCHANGED << persistent, version, plover_version, offset, rows, idx, pipeline,
                    raised, ops >>
    /\ UNCHANGED files
    /\ UNCHANGED sftp_vars

\* LoaderFlushAll deleting the "version" key alone instead of flushing.
LoaderFlushAll_MarkerOnly ==
    /\ pc = "flushall"
    /\ ops' = Issue("flushall")
    /\ \/ /\ marker' = None
          /\ Continue("connect")
          /\ UNCHANGED store
       \/ /\ Raise("redis")
          /\ UNCHANGED << store, marker >>
    /\ UNCHANGED << remote, snapshot, version, plover_version, loader_locals, calls >>
    /\ UNCHANGED files
    /\ UNCHANGED sftp_vars

\* redis_client.flushall()
LoaderFlushAll ==
    /\ pc = "flushall"
    /\ ops' = Issue("flushall")
    /\ \/ /\ store' = EmptyStore
          /\ marker' = None
          /\ Continue("connect")
       \/ /\ Raise("redis")
          /\ UNCHANGED << store, marker >>
    /\ UNCHANGED << remote, snapshot, version, plover_version, loader_locals, calls >>
    /\ UNCHANGED files
    /\ UNCHANGED sftp_vars

\* sqlite3.connect, cursor(), and the locals set before the count query.
LoaderConnect ==
    /\ pc = "connect"
    /\ \/ /\ Continue("count")
          /\ offset' = 0
       \/ /\ Raise("sqlite3")            \* the snapshot file cannot be opened
          /\ UNCHANGED offset
    /\ UNCHANGED << persistent, version, plover_version, redis_version, rows, idx,
                    pipeline, raised, at_call, ops, calls >>
    /\ UNCHANGED files
    /\ UNCHANGED sftp_vars

\* SELECT COUNT(*) FROM curie_to_pmids, outside the try block.
LoaderCount ==
    /\ pc = "count"
    /\ \/ /\ curie_to_pmids_path(version) \in local
          /\ Continue("select")
       \/ Raise("sqlite3")               \* no such table, or the file is not a database
    /\ UNCHANGED files
    /\ UNCHANGED << persistent, version, plover_version, loader_locals, ops, calls >>
    /\ UNCHANGED sftp_vars

\* SELECT ... LIMIT batch_size OFFSET offset
Batch(table, off) ==
    SubSeq(table, off + 1, IF off + batch_size < Len(table) THEN off + batch_size ELSE Len(table))

\* The batch query, `if not rows: break`, and the new pipeline.
LoaderSelect ==
    /\ pc = "select"
    /\ \/ LET batch == Batch(snapshot[version], offset)
          IN  /\ rows' = batch
              /\ UNCHANGED raised
              /\ IF batch = <<>>
                 THEN /\ pc' = "finally"
                      /\ UNCHANGED << idx, pipeline >>
                 ELSE /\ pc' = "row"
                      /\ idx' = 1
                      /\ pipeline' = <<>>
       \/ /\ pc' = "except"              \* the query raised
          /\ raised' = "sqlite3"
          /\ UNCHANGED << rows, idx, pipeline >>
    /\ UNCHANGED << persistent, version, plover_version, redis_version, offset, at_call,
                    ops, calls, status, error >>
    /\ UNCHANGED files
    /\ UNCHANGED sftp_vars

\* pipeline.execute() on the store: every buffered SADD is applied.
Executed(st, pipe) ==
    [c \in Curies |->
        st[c] \cup UNION { pipe[i].members : i \in { j \in DOMAIN pipe : pipe[j].curie = c } }]

\* The next position of the for loop over rows.
Advance ==
    /\ UNCHANGED raised
    /\ IF idx = Len(rows)
       THEN /\ pc' = "execute"
            /\ UNCHANGED idx
       ELSE /\ pc' = "row"
            /\ idx' = idx + 1

\* An exception inside the try block: control goes to the except clause.
Except(e) ==
    /\ pc' = "except"
    /\ raised' = e
    /\ UNCHANGED idx

\* One iteration of `for curie, pmids_str in rows`.
LoaderRow ==
    /\ pc = "row"
    /\ LET row == rows[idx]
           pmids == literal_eval(row.pmids)
           queued == Append(pipeline, [curie |-> row.curie, members |-> Range(pmids.items)])
       IN  IF pmids.type = "SyntaxError"
           THEN /\ Except("SyntaxError")               \* literal_eval raised
                /\ UNCHANGED << pipeline, store, ops >>
           ELSE IF ~Truthy(pmids)
           THEN /\ Advance                             \* continue
                /\ UNCHANGED << pipeline, store, ops >>
           ELSE IF ~Iterable(pmids)
           THEN /\ Except("TypeError")                 \* *pmids on a value that is not iterable
                /\ UNCHANGED << pipeline, store, ops >>
           ELSE IF Len(queued) >= pipeline_size
           THEN /\ ops' = [ops EXCEPT !.sadd = @ + 1, !.execute = @ + 1]
                /\ \/ /\ store' = Executed(store, queued)
                      /\ pipeline' = <<>>
                      /\ Advance
                   \/ /\ Except("redis")               \* pipeline.execute() raised
                      /\ pipeline' = queued
                      /\ UNCHANGED store
           ELSE /\ pipeline' = queued
                /\ ops' = Issue("sadd")
                /\ Advance
                /\ UNCHANGED store
    /\ UNCHANGED << marker, remote, snapshot, version, plover_version, redis_version,
                    offset, rows, at_call, calls, status, error >>
    /\ UNCHANGED files
    /\ UNCHANGED sftp_vars

\* LoaderExecute without the pipeline.execute() that ends a batch.
LoaderExecute_NoExecute ==
    /\ pc = "execute"
    /\ offset' = offset + batch_size
    /\ pc' = "select"
    /\ UNCHANGED << marker, store, remote, snapshot, version, plover_version, redis_version,
                    rows, idx, pipeline, raised, at_call, ops, calls, status, error >>
    /\ UNCHANGED files
    /\ UNCHANGED sftp_vars

\* The pipeline.execute() that ends a batch, and offset += batch_size.
LoaderExecute ==
    /\ pc = "execute"
    /\ ops' = Issue("execute")
    /\ \/ /\ store' = Executed(store, pipeline)
          /\ pipeline' = <<>>
          /\ offset' = offset + batch_size
          /\ pc' = "select"
          /\ UNCHANGED raised
       \/ /\ pc' = "except"
          /\ raised' = "redis"
          /\ UNCHANGED << store, pipeline, offset >>
    /\ UNCHANGED << marker, remote, snapshot, version, plover_version, redis_version,
                    rows, idx, at_call, calls, status, error >>
    /\ UNCHANGED files
    /\ UNCHANGED sftp_vars

\* except Exception: log the exception, the offset and the batch size; re-raise.
LoaderExcept ==
    /\ pc = "except"
    /\ pc' = "finally"
    /\ UNCHANGED << persistent, version, plover_version, loader_locals, ops, calls,
                    status, error >>
    /\ UNCHANGED files
    /\ UNCHANGED sftp_vars

\* LoaderFinally with a `return` in the finally block: the exception is dropped.
LoaderFinally_Swallow ==
    /\ pc = "finally"
    /\ ops' = Issue("set")
    /\ \/ /\ marker' = version
          /\ Continue("compute")
       \/ /\ Raise("redis")
          /\ UNCHANGED marker
    /\ UNCHANGED << store, remote, snapshot, version, plover_version, loader_locals, calls >>
    /\ UNCHANGED files
    /\ UNCHANGED sftp_vars

\* finally: close the cursor and connection, redis_client.set("version", version);
\* then the return, or the exception that was propagating.
LoaderFinally ==
    /\ pc = "finally"
    /\ ops' = Issue("set")
    /\ \/ /\ marker' = version
          /\ IF raised # None
             THEN Raise(raised)
             ELSE Continue("compute")
       \/ /\ Raise("redis")              \* the set itself raised
          /\ UNCHANGED marker
    /\ UNCHANGED << store, remote, snapshot, version, plover_version, loader_locals, calls >>
    /\ UNCHANGED files
    /\ UNCHANGED sftp_vars

\* ---------------------------------------------------------------- compute, upload
\* --num-pubmed-articles and --avg-mesh-terms-per-article (defaults), and their
\* product, the normalizing constant N.
num_pubmed_articles == 35000000

avg_mesh_terms_per_article == 20

NGD_normalizer == num_pubmed_articles * avg_mesh_terms_per_article

\* The pairs the compute step scores: every ordered pair of concepts.
Pairs == Curies \X Curies

\* A score: a sentinel of the degenerate-input policy, or the number
\* (log(log_max) - log(log_intersection)) / (log(log_N) - log(log_min)), kept as
\* the four arguments of its logarithms.
Score(kind, mx, inter, mn) ==
    [kind |-> kind, log_max |-> mx, log_intersection |-> inter,
     log_N |-> NGD_normalizer, log_min |-> mn]

Undefined == Score("undefined", 0, 0, 0)
MaxDistance == Score("max_distance", 0, 0, 0)

Max(x, y) == IF x >= y THEN x ELSE y
Min(x, y) == IF x <= y THEN x ELSE y

\* ngd without the test for an empty citation set.
ngd_NoEmptyTest(countA, countB, intersection) ==
    IF intersection = 0 THEN MaxDistance
    ELSE Score("number", Max(countA, countB), intersection, Min(countA, countB))

\* ngd(A,B) = (log(max(|A|,|B|)) - log(|A n B|)) / (log(N) - log(min(|A|,|B|))),
\* under the degenerate-input policy.
ngd(countA, countB, intersection) ==
    IF countA = 0 \/ countB = 0 THEN Undefined
    ELSE IF intersection = 0 THEN MaxDistance
    ELSE IF Min(countA, countB) >= NGD_normalizer THEN Undefined
    ELSE Score("number", Max(countA, countB), intersection, Min(countA, countB))

\* The NGDRecord of a pair: the cardinalities come from the store's sets.
NGDRecord(st, a, b) ==
    LET countA == Cardinality(st[a])
        countB == Cardinality(st[b])
        intersection == Cardinality(st[a] \cap st[b])
    IN  [curieA |-> a, curieB |-> b, ngd |-> ngd(countA, countB, intersection),
         countA |-> countA, countB |-> countB, intersection |-> intersection]

computePairs(st, pairs) == { NGDRecord(st, p[1], p[2]) : p \in pairs }

\* run_ngd_calculation_process(...) is called.
ComputeStart ==
    /\ pc = "compute"
    /\ calls' = Append(calls, "compute")
    /\ Continue("computing")
    /\ UNCHANGED << persistent, version, plover_version, loader_locals, ops >>
    /\ UNCHANGED files
    /\ UNCHANGED sftp_vars

\* ComputeEnd with the call wrapped in try/except that logs and carries on.
ComputeEnd_CarryOn ==
    /\ pc = "computing"
    /\ pc' = "upload"
    /\ \/ /\ UNCHANGED error
          /\ local' = local \cup {curie_ngd_db_name(version)}
          /\ records' = computePairs(store, Pairs)
       \/ /\ error' = "run_ngd_calculation_process"
          /\ UNCHANGED << local, records >>
    /\ UNCHANGED out_dir
    /\ UNCHANGED << persistent, version, plover_version, loader_locals, ops, calls, status >>
    /\ UNCHANGED sftp_vars

\* run_ngd_calculation_process(...) returns, or raises.
ComputeEnd ==
    /\ pc = "computing"
    /\ \/ /\ Continue("upload")
          /\ local' = local \cup {curie_ngd_db_name(version)}
          /\ records' = computePairs(store, Pairs)
       \/ /\ Raise("run_ngd_calculation_process")
          /\ UNCHANGED << local, records >>
    /\ UNCHANGED out_dir
    /\ UNCHANGED << persistent, version, plover_version, loader_locals, ops, calls >>
    /\ UNCHANGED sftp_vars

\* upload_file(...) and the end of the script.
Upload ==
    /\ pc = "upload"
    /\ calls' = Append(calls, "upload")
    /\ \/ /\ Under(out_dir, curie_ngd_db_name(version)) \in local    \* os.path.isfile(local_path)
          /\ remote' = remote \cup {version}
          /\ Exit(0)
       \/ /\ Raise("upload_file")      \* FileNotFoundError, or the transfer failed
          /\ UNCHANGED remote
    /\ UNCHANGED files
    /\ UNCHANGED << marker, store, snapshot, version, plover_version, loader_locals, ops >>
    /\ UNCHANGED sftp_vars

\* The script is started again, against the same store and remote host.
NewRun ==
    /\ pc = "exited"
    /\ pc' = "main"
    /\ version' \in Versions
    /\ plover_version' = Unset
    /\ redis_version' = Unset
    /\ offset' = 0
    /\ rows' = <<>>
    /\ idx' = 0
    /\ pipeline' = <<>>
    /\ raised' = None
    /\ ops' = NoOps
    /\ calls' = <<>>
    /\ status' = None
    /\ error' = None
    /\ at_call' = Unset
    /\ out_dir' \in OutDirs
    /\ records' = {}
    /\ UNCHANGED << persistent, local >>
    /\ UNCHANGED sftp_vars

Next ==
    \/ RemoteCheck
    \/ Download
    \/ PloverCheck
    \/ LoaderGetVersion
    \/ LoaderFlushAll
    \/ LoaderConnect
    \/ LoaderCount
    \/ LoaderSelect
    \/ LoaderRow
    \/ LoaderExecute
    \/ LoaderExcept
    \/ LoaderFinally
    \/ ComputeStart
    \/ ComputeEnd
    \/ Upload
    \/ NewRun

Spec == Init /\ [][Next]_vars

\* ---------------------------------------------------------------- upload_script
\* Remote paths are strings; a string is a sequence of characters.
MaxPathLen == 5

Chars == {"/", "a", ".", "~"}

RemotePaths == UNION { [1..n -> Chars] : n \in 0..MaxPathLen }

\* What `printf %s $HOME` prints on the remote host (never empty, or
\* _get_remote_home_dir raises before any directory is looked at).
Homes == { << "/" >>, << "/", "a" >>, << "/", "a", "/" >> }

AllSlashes(p) == \A i \in DOMAIN p : p[i] = "/"

RECURSIVE rstrip(_)
rstrip(p) ==
    IF p # <<>> /\ p[Len(p)] = "/" THEN rstrip(SubSeq(p, 1, Len(p) - 1)) ELSE p

\* str.rfind("/") + 1: the length of the prefix that ends at the last slash.
rfind(p) ==
    LET slashes == { i \in DOMAIN p : p[i] = "/" }
    IN  IF slashes = {} THEN 0 ELSE CHOOSE i \in slashes : \A j \in slashes : j <= i

\* os.path.dirname of posixpath.
dirname(p) ==
    LET head == SubSeq(p, 1, rfind(p))
    IN  IF head # <<>> /\ ~AllSlashes(head) THEN rstrip(head) ELSE head

_expand_remote_path(remote_home, remote_path) ==
    IF remote_path = << "~" >> THEN remote_home
    ELSE IF Len(remote_path) >= 2 /\ SubSeq(remote_path, 1, 2) = << "~", "/" >>
         THEN rstrip(remote_home) \o Tail(remote_path)
         ELSE remote_path

\* The remote host's view of a path: its non-empty components, looked up
\* from the root for an absolute path and from the session's directory (the
\* home directory) otherwise.  A directory is the sequence of names from the
\* root down to it.
RECURSIVE Components(_, _, _)
Components(p, cur, acc) ==
    IF p = <<>> THEN (IF cur = <<>> THEN acc ELSE Append(acc, cur))
    ELSE IF Head(p) = "/"
         THEN Components(Tail(p), <<>>, IF cur = <<>> THEN acc ELSE Append(acc, cur))
         ELSE Components(Tail(p), Append(cur, Head(p)), acc)

Names(p) == Components(p, <<>>, <<>>)

Root == <<>>

Start(p) == IF p # <<>> /\ p[1] = "/" THEN Root ELSE Names(home)

Up(dir) == IF dir = Root THEN Root ELSE SubSeq(dir, 1, Len(dir) - 1)

Step(dir, name) ==
    IF name = << "." >> THEN dir
    ELSE IF name = << ".", "." >> THEN Up(dir)
    ELSE Append(dir, name)

\* Path lookup: every directory on the way has to exist.
RECURSIVE Walk(_, _, _)
Walk(dirs, dir, names) ==
    IF dir \notin dirs THEN [ok |-> FALSE, dir |-> dir]
    ELSE IF names = <<>> THEN [ok |-> TRUE, dir |-> dir]
    ELSE Walk(dirs, Step(dir, Head(names)), Tail(names))

Exists(dirs, p) == Walk(dirs, Start(p), Names(p)).ok

ParentExists(dirs, p) ==
    Names(p) # <<>> /\ Walk(dirs, Start(p), SubSeq(Names(p), 1, Len(Names(p)) - 1)).ok

\* The directory a successful mkdir(p) adds.
Created(dirs, p) ==
    Step(Walk(dirs, Start(p), SubSeq(Names(p), 1, Len(Names(p)) - 1)).dir,
         Names(p)[Len(Names(p))])

\* Every directory a lookup of p passes through.
RECURSIVE Visited(_, _)
Visited(dir, names) ==
    { dir } \cup (IF names = <<>> THEN {} ELSE Visited(Step(dir, Head(names)), Tail(names)))

Prefixes(dir) == { SubSeq(dir, 1, k) : k \in 0..Len(dir) }

ParentClosed(dirs) == \A d \in dirs : Up(d) \in dirs

Frame(dir, at) == [remote_dir |-> dir, at |-> at]

Top == stack[Len(stack)]

remote_dir == dirname(remote_path_expanded)

\* upload_file up to its call of _mkdir_p_sftp: the build has reached the
\* upload step, the path is expanded, and its directory is handed over.
\* The home directory exists; of the other remote directories only those a
\* lookup of remote_dir passes through matter, and a directory exists only
\* inside an existing one.
InitUpload ==
    /\ marker = None
    /\ store = EmptyStore
    /\ remote = {}
    /\ snapshot = [v \in Versions |-> PriorTable]
    /\ pc = "upload"
    /\ version = "2.10.1"
    /\ plover_version = Unset
    /\ redis_version = Unset
    /\ offset = 0
    /\ rows = <<>>
    /\ idx = 0
    /\ pipeline = <<>>
    /\ raised = None
    /\ ops = NoOps
    /\ calls = <<>>
    /\ status = None
    /\ error = None
    /\ at_call = Unset
    /\ out_dir = "."
    /\ local = {}
    /\ records = {}
    /\ home \in Homes
    /\ \E remote_path \in RemotePaths :
           remote_path_expanded = _expand_remote_path(home, remote_path)
    /\ stack = << Frame(remote_dir, "stat") >>
    /\ \E dirs \in SUBSET Visited(Start(remote_dir), Names(remote_dir)) :
           /\ fs = Prefixes(Names(home)) \cup dirs
           /\ ParentClosed(fs)
    /\ not_found = {}
    /\ mkdirs = <<>>
    /\ mk_result = "running"

\* return from the innermost call of _mkdir_p_sftp
Return ==
    /\ stack' = SubSeq(stack, 1, Len(stack) - 1)
    /\ mk_result' = IF Len(stack) = 1 THEN "returned" ELSE mk_result

\* an exception leaves every frame: none of the calls catches it
Propagate ==
    /\ stack' = <<>>
    /\ mk_result' = "raised"

\* _mkdir_p_sftp from its entry to the outcome of sftp.stat: return on ""
\* and "/", return when the directory is there, recurse on the parent when
\* stat raises FileNotFoundError, and let any other error of stat through.
MkdirStat ==
    /\ stack # <<>>
    /\ Top.at = "stat"
    /\ IF Top.remote_dir \in { <<>>, << "/" >> }
       THEN Return /\ UNCHANGED not_found
       ELSE \/ Exists(fs, Top.remote_dir) /\ Return /\ UNCHANGED not_found
            \/ /\ ~Exists(fs, Top.remote_dir)
               /\ not_found' = not_found \cup { Top.remote_dir }
               /\ stack' = Append([stack EXCEPT ![Len(stack)].at = "mkdir"],
                                  Frame(dirname(Top.remote_dir), "stat"))
               /\ UNCHANGED mk_result
            \/ Propagate /\ UNCHANGED not_found
    /\ UNCHANGED << build_vars, home, remote_path_expanded, fs, mkdirs >>

\* sftp.mkdir(remote_dir) after the recursive call has come back.  The
\* server refuses a directory that exists or whose parent is missing, and
\* may refuse any other for a reason of its own (permissions, quota).
MkdirCreate ==
    /\ stack # <<>>
    /\ Top.at = "mkdir"
    /\ mkdirs' = Append(mkdirs, [remote_dir |-> Top.remote_dir,
                                 existed |-> Exists(fs, Top.remote_dir),
                                 parent_existed |-> ParentExists(fs, Top.remote_dir)])
    /\ \/ /\ ~Exists(fs, Top.remote_dir)
          /\ ParentExists(fs, Top.remote_dir)
          /\ fs' = fs \cup { Created(fs, Top.remote_dir) }
          /\ Return
       \/ Propagate /\ UNCHANGED fs
    /\ UNCHANGED << build_vars, home, remote_path_expanded, not_found >>

NextUpload ==
    \/ MkdirStat
    \/ MkdirCreate

SpecUpload == InitUpload /\ [][NextUpload]_vars

\* ---------------------------------------------------------------- properties
\* A payload that is a well-formed list of citation identifiers.
WellFormed(text) == literal_eval(text).type = "list"

\* The citation set a row stands for: the identifiers of its list.
CitationSet(row) == Range(literal_eval(row.pmids).items)

\* The rows of version v that carry a non-empty citation list.
ListRows(v) ==
    { i \in DOMAIN snapshot[v] :
        WellFormed(snapshot[v][i].pmids) /\ CitationSet(snapshot[v][i]) # {} }

\* Some citation set of snapshot v is not (wholly) in the store.
Missing(v) ==
    \E i \in ListRows(v) : ~(CitationSet(snapshot[v][i]) \subseteq store[snapshot[v][i].curie])

\* The store holds exactly snapshot v: every non-empty citation list under its
\* CURIE, and no key that is not a CURIE of the snapshot.
Reflects(v) ==
    /\ \A i \in ListRows(v) : store[snapshot[v][i].curie] = CitationSet(snapshot[v][i])
    /\ \A c \in Curies :
          store[c] # {} => \E i \in DOMAIN snapshot[v] : snapshot[v][i].curie = c

\* The run has ended in one of the failures of the build.
FailedRun ==
    \/ plover_version \notin {Unset, version}
    \/ error # None

\* A load the run performed itself and that returned without an exception has
\* left exactly the requested snapshot in the store, whatever the number of
\* rows relative to batch_size and pipeline_size.
CompletedLoadReflects ==
    (pc = "compute" /\ ops.set = 1) => Reflects(version)

\* C1 (as claimed; the code violates it): when the loader has failed inside its
\* load loop after writing some but not all citation sets, the version marker
\* does not equal the target version when the process exits.
C1_AtomicVersionMarker ==
    (pc = "exited" /\ raised # None /\ store # EmptyStore /\ Missing(version))
        => marker # version

\* C2 (as claimed; the code violates it): NGD computation never runs against a
\* cache that holds only part of the requested version's snapshot, in any run of
\* any sequence of runs.
C2_NoHalfLoadedCompute ==
    pc = "computing" => ~Missing(version)

\* C3: once the loader has read a marker equal to the target version, the run
\* issues no flush, no set-add, no pipeline execute and no marker write, and the
\* marker and the sets stay what they were when the loader was called.
C3_IdempotentLoad ==
    redis_version = version =>
        /\ ops = NoOps
        /\ marker = at_call.marker
        /\ store = at_call.store
        /\ pc \in {"compute", "computing", "upload", "exited"}

\* C3 witness: the loader took the no-op path on a cache a former run filled.
C3_Witness ==
    /\ redis_version = version
    /\ pc = "compute"
    /\ store # EmptyStore

\* C4 (as claimed; the code violates it): whenever the marker equals a version,
\* the store holds exactly that version's snapshot.
C4_CacheReflectsSnapshot ==
    \A v \in Versions : marker = v => Reflects(v)

\* C5: when the knowledge-graph service reports no version or another version
\* than the requested one, the run is over, and it has invoked neither the
\* loader, nor compute, nor upload, and has sent no command to the store.
C5_MismatchNeverReachesCompute ==
    plover_version \notin {Unset, version} =>
        /\ pc = "exited"
        /\ calls = <<>>
        /\ ops = NoOps
        /\ at_call = Unset

\* C5 witness: a run that ended on a reported version other than the requested.
C5_Witness ==
    /\ plover_version \in Versions
    /\ plover_version # version
    /\ pc = "exited"

\* C6 (as claimed; the code violates it): when the snapshot cannot be opened or
\* queried (before the load loop), the marker and the sets are what they were
\* when the loader was called.
C6_UnreadableSnapshotNoMutation ==
    (pc = "exited" /\ error = "sqlite3" /\ raised = None)
        => (marker = at_call.marker /\ store = at_call.store)

\* C7: while run_ngd_calculation_process runs, the loader has been called and
\* has returned without an exception, nothing else was called in between, and
\* the marker equals the requested version.
C7_ComputeOnConfirmedCache ==
    pc = "computing" =>
        /\ calls = << "loader", "compute" >>
        /\ raised = None
        /\ error = None
        /\ marker = version

\* C7 witness: compute running after a load this run performed itself.
C7_Witness ==
    /\ pc = "computing"
    /\ ops.set = 1
    /\ store # EmptyStore

\* C8 (as claimed; the code violates it): a row whose payload is not a
\* well-formed list takes the loader to its except clause, with no set-add
\* issued and nothing written.
C8_MalformedRowsFatal ==
    [][ (pc = "row" /\ ~WellFormed(rows[idx].pmids))
            => (pc' = "except" /\ ops'.sadd = ops.sadd /\ store' = store) ]_vars

\* C9 (as claimed; the code violates it): a run that ended in failure has an
\* exit status other than 0, the status of a run that loaded, computed and
\* uploaded.
C9_ExitStatusReflectsOutcome ==
    (pc = "exited" /\ FailedRun) => status # 0

\* C10: upload_file is invoked at most once in a run, as the third call after
\* the loader and compute, with no exception raised before it; a run whose
\* version check, load or compute failed has not invoked it.
C10_UploadOnlyAfterCompute ==
    /\ Cardinality({ i \in DOMAIN calls : calls[i] = "upload" }) <= 1
    /\ pc = "upload" => (calls = << "loader", "compute" >> /\ error = None /\ raised = None)
    /\ "upload" \in Range(calls) =>
          /\ calls = << "loader", "compute", "upload" >>
          /\ plover_version = version
          /\ raised = None
          /\ error \in {None, "upload_file"}

\* C10 witness: a run that uploaded and ended.
C10_Witness ==
    /\ pc = "exited"
    /\ calls = << "loader", "compute", "upload" >>
    /\ status = 0

\* C11 (as claimed; the code violates it): a load that a store error ended at
\* the flush or at the marker write has attempted that command more than once.
C11_TransientFailuresRetried ==
    (pc = "exited" /\ error = "redis" /\ raised = None /\ redis_version # Unset)
        => (ops.flushall > 1 \/ ops.set > 1)

\* The loader is between its flush and the end of its finally block.
Reloading == pc \in {"connect", "count", "select", "row", "execute", "except", "finally"}

\* What the rows of snapshot v can put under CURIE c.
NewMembers(v, c) ==
    UNION { CitationSet(snapshot[v][i]) : i \in { j \in DOMAIN snapshot[v] : snapshot[v][j].curie = c } }

\* C13: from the flush to the end of the loader the marker is unset and the
\* store holds nothing but what the rows of the requested snapshot put there;
\* the same holds of the store after the loader has returned from a reload.
C13_WholesaleReplacement ==
    /\ Reloading => marker = None
    /\ (Reloading \/ (pc \in {"compute", "computing", "upload"} /\ ops.flushall = 1))
          => \A c \in Curies : store[c] \subseteq NewMembers(version, c)

\* C13 witness: a reload over a cache that held another version, with sets of
\* the new version already written.
C13_Witness ==
    /\ pc = "finally"
    /\ at_call.marker \in Versions
    /\ at_call.marker # version
    /\ at_call.store # EmptyStore
    /\ store # EmptyStore

\* The rows for which the loader issues a set-add.
SaddRows(v) ==
    { i \in DOMAIN snapshot[v] :
        LET pmids == literal_eval(snapshot[v][i].pmids)
        IN  pmids.type # "SyntaxError" /\ Truthy(pmids) /\ Iterable(pmids) }

\* C14: inside the load loop the offset is a whole number of batches; every
\* row below it has had its set-add executed (one set-add per such row, none
\* twice); a batch is being processed only while rows remain; and the loop is
\* left without an exception exactly at the first empty batch.
C14_BatchProgress ==
    pc \in {"select", "row", "execute", "except", "finally"} =>
        /\ offset % batch_size = 0
        /\ \A i \in SaddRows(version) :
              i <= offset => CitationSet(snapshot[version][i]) \subseteq store[snapshot[version][i].curie]
        /\ pc = "select" => ops.sadd = Cardinality({ i \in SaddRows(version) : i <= offset })
        /\ pc \in {"row", "execute"} => offset < Len(snapshot[version])
        /\ (pc = "finally" /\ raised = None) =>
              /\ offset >= Len(snapshot[version])
              /\ offset < Len(snapshot[version]) + batch_size

\* C14 witness: a failure in a later batch, with the batches below the offset
\* written.
C14_Witness ==
    /\ pc = "except"
    /\ offset > 0
    /\ store # EmptyStore

\* C15 (as claimed; the code violates it): the run goes past the
\* remote-existence check only when the artifact is not on the remote host, and
\* stops there with exit(0) only when it is.
C15_RemoteExistenceGate ==
    /\ pc = "download" => version \notin remote
    /\ (pc = "exited" /\ status = 0 /\ plover_version = Unset) => version \in remote

\* C16 (as claimed; the code violates it): the file the loader opens is the
\* file the download staged, and the file handed to upload_file is the file
\* the compute step was told to write.
C16_ArtifactPathConsistency ==
    /\ pc \in {"get_version", "flushall", "connect", "count"}
          => curie_to_pmids_path(version) = Under(out_dir, curie_to_pmids_path(version))
    /\ pc = "upload"
          => Under(out_dir, curie_ngd_db_name(version)) = curie_ngd_db_name(version)

\* A score that is a number, neither NaN nor infinite: every logarithm has a
\* positive argument and the denominator is positive.
FiniteScore(x) ==
    /\ x.kind = "number"
    /\ x.log_max > 0 /\ x.log_intersection > 0 /\ x.log_min > 0
    /\ x.log_N > x.log_min

\* C12: every emitted record of a pair with an empty citation set carries the
\* undefined sentinel and the counts of the store's sets; no record carries a
\* score that is NaN or infinite; and the record of (B,A) has the same score.
C12_DegenerateInputs ==
    \A r \in records :
        /\ r.countA = Cardinality(store[r.curieA])
        /\ r.countB = Cardinality(store[r.curieB])
        /\ r.intersection = Cardinality(store[r.curieA] \cap store[r.curieB])
        /\ (r.countA = 0 \/ r.countB = 0) => r.ngd = Undefined
        /\ r.ngd \in {Undefined, MaxDistance} \/ FiniteScore(r.ngd)
        /\ \E m \in records : m.curieA = r.curieB /\ m.curieB = r.curieA /\ m.ngd = r.ngd

\* C12 witness: records of one compute step with an empty set against a
\* non-empty one, and a pair with a numeric score.
C12_Witness ==
    /\ \E r \in records : r.countA = 0 /\ r.countB > 0 /\ r.ngd = Undefined
    /\ \E r \in records : r.curieA # r.curieB /\ FiniteScore(r.ngd)

\* C17 (as claimed; the code violates it): _mkdir_p_sftp terminates for every
\* remote directory path (each recursive call gets a strictly shorter path and
\* a running call always has a frame to step), on a normal return the path
\* and every ancestor of it exist, and every mkdir is made on a path whose
\* stat reported not-found, that did not exist at the time of the call, whose
\* parent had been created before it, and that is neither "" nor "/".
C17_MkdirPTerminatesAndCreates ==
    /\ mk_result = "running" => stack # <<>>
    /\ \A i \in 1..(Len(stack) - 1) :
           Len(stack[i + 1].remote_dir) < Len(stack[i].remote_dir)
    /\ mk_result = "returned" => Exists(fs, remote_dir)
    /\ \A k \in DOMAIN mkdirs :
           /\ mkdirs[k].remote_dir \in not_found
           /\ ~mkdirs[k].existed
           /\ mkdirs[k].parent_existed
           /\ mkdirs[k].remote_dir \notin { <<>>, << "/" >> }

\* upload_file's recursion has created a directory and then asked the server
\* to create a path that names a directory that is already there.
C17_Witness ==
    /\ mk_result = "raised"
    /\ Len(mkdirs) >= 2
    /\ ~mkdirs[1].existed
    /\ mkdirs[Len(mkdirs)].existed

====
